---- MODULE Spec2Model ----
(***************************************************************************)
(* Model of the jira_cli data layer (src/db.rs), its entity model          *)
(* (src/models.rs), the page contract (src/ui/pages/mod.rs) and the        *)
(* driving loop (src/main.rs).                                             *)
(*                                                                         *)
(* The storage backend of the repository calls is the in-memory MockDB of  *)
(* db.rs: one cell, last_written_state, that read_db copies and write_db   *)
(* replaces.  Every JiraDatabase method is one action: it reads the cell,  *)
(* computes the method's outcome and writes the cell back when the method  *)
(* reaches its write_db call.  JSONFileDatabase is modelled by the JSON    *)
(* document it writes and parses, and main() by one action per step of     *)
(* its loop.                                                               *)
(***************************************************************************)
EXTENDS Integers, Sequences, FiniteSets, TLC

VARIABLES
    last_written_state, \* MockDB.last_written_state: the persisted DBState
    issued,             \* ids nanoid!(6) has returned so far
    pre,                \* history: the persisted DBState before the last call
    call,               \* history: the last call, its arguments and its result
    database,           \* JiraDatabase.database: which backend, and its file
    main,               \* main(): where its loop stands, and the navigator's pages
    backend_calls       \* history: the Database calls of the last call made
                        \* through a backend that can fail

vars == <<last_written_state, issued, pre, call, database, main, backend_calls>>

----------------------------------------------------------------------------
(* Bounds *)

MaxIds == 3

\* the ids generated in a run over the failing backend
MaxGenerated == 2

\* the longest text and the widest column handed to get_column_string
MaxText == 5

MaxWidth == 6

----------------------------------------------------------------------------
(* Values *)

\* the 6-character codes nanoid!(6) can return, and callers can pass
IdNames == <<"id0001", "id0002", "id0003", "id0004", "id0005", "id0006",
             "id0007", "id0008">>

Ids == {IdNames[i] : i \in 1..MaxIds}

Status == {"Open", "InProgress", "Resolved", "Closed"}

Names == {"A"}

Descriptions == {"D"}

\* the statuses callers pass to the update methods
StatusArgs == {"Closed"}

\* stories a caller-built Epic value may carry into create_epic
InputStories == {<<>>, <<IdNames[1]>>}

EmptyMap == [k \in {} |-> {}]

contains_key(m, k) == k \in DOMAIN m

insert(m, k, v) == [x \in (DOMAIN m) \cup {k} |-> IF x = k THEN v ELSE m[x]]

remove(m, k) == [x \in (DOMAIN m) \ {k} |-> m[x]]

RECURSIVE retain_ne(_, _)
\* Vec::retain(|id| id != story_id)
retain_ne(seq, story_id) ==
    IF seq = <<>> THEN <<>>
    ELSE IF Head(seq) # story_id
         THEN <<Head(seq)>> \o retain_ne(Tail(seq), story_id)
         ELSE retain_ne(Tail(seq), story_id)

\* Vec::contains / iter().find(..).is_some()
contains(seq, x) == \E i \in 1..Len(seq) : seq[i] = x

Epic_new(name, description) ==
    [name |-> name, description |-> description, status |-> "Open", stories |-> <<>>]

Story_new(name, description) ==
    [name |-> name, description |-> description, status |-> "Open"]

\* MockDB::new
MockDB_new == [last_item_id |-> "0", epics |-> EmptyMap, stories |-> EmptyMap]

\* Result values
Ok(v) == [kind |-> "Ok", value |-> v]

Err(msg) == [kind |-> "Err", value |-> msg]

\* Option::unwrap() on None
Panic == [kind |-> "Panic", value |-> "unwrap on None"]

EpicNotFound == "Epic does not exist."

StoryNotFound == "Story does not exist."

\* outcome of a JiraDatabase method: its result, whether it reached write_db,
\* and the DBState it handed to write_db
Outcome(res, write, db_state) == [res |-> res, write |-> write, db_state |-> db_state]

----------------------------------------------------------------------------
(* Id generation *)

\* an id generator that can return a code it returned before
nanoid_repeats == Ids

\* nanoid!(6): a random 6-character code.  The generator's contract is that
\* the code is unique: it returns a code it has not returned before, any of
\* them.  Callers, in contrast, may pass any code of Ids to any method.
nanoid == Ids \ issued

----------------------------------------------------------------------------
(* Storage backend: MockDB *)

\* no file at JSONFileDatabase.file_path
NoFile == [json |-> "no file"]

\* JiraDatabase { database: Box::new(MockDB::new()) }
MockDB == [kind |-> "MockDB", file |-> NoFile]

\* a copy kept from before the last call instead of the cell's content
read_db_cached == pre

read_db == last_written_state

----------------------------------------------------------------------------
(* Storage backend: JSONFileDatabase *)

\* A JSON document is kept as its tree: a string, a number, an array of
\* values, or an object, which is the sequence of its members <<key, value>>
\* in the order they stand in the text.
JString(s) == [json |-> "string", s |-> s]

JNumber(n) == [json |-> "number", n |-> n]

JArray(items) == [json |-> "array", items |-> items]

JObject(members) == [json |-> "object", members |-> members]

\* impl Display for Status
Status_to_string(status) ==
    CASE status = "Open" -> "OPEN"
      [] status = "InProgress" -> "IN PROGRESS"
      [] status = "Resolved" -> "RESOLVED"
      [] status = "Closed" -> "CLOSED"

\* a Status written with its Display text
Status_to_json_display(status) == JString(Status_to_string(status))

\* #[derive(Serialize)] on Status: a unit variant is written as its name
Status_to_json(status) == JString(status)

\* the orders in which a HashMap can hand out its keys
Orders(keys) ==
    {o \in [1..Cardinality(keys) -> keys] : \A i, j \in DOMAIN o : o[i] = o[j] => i = j}

Story_to_json(story) ==
    JObject(<< <<"name", JString(story.name)>>,
               <<"description", JString(story.description)>>,
               <<"status", Status_to_json(story.status)>> >>)

Epic_to_json(epic) ==
    JObject(<< <<"name", JString(epic.name)>>,
               <<"description", JString(epic.description)>>,
               <<"status", Status_to_json(epic.status)>>,
               <<"stories", JArray([i \in DOMAIN epic.stories |-> JString(epic.stories[i])])>> >>)

\* serde_json::to_string_pretty(&db_state): the documents it can produce,
\* one for every iteration order of the two HashMaps
to_string_pretty(db_state) ==
    {JObject(<< <<"epics",
                  JObject([i \in DOMAIN oe |-> <<oe[i], Epic_to_json(db_state.epics[oe[i]])>>])>>,
                <<"stories",
                  JObject([i \in DOMAIN os |-> <<os[i], Story_to_json(db_state.stories[os[i]])>>])>>,
                <<"last_item_id", JString(db_state.last_item_id)>> >>) :
        oe \in Orders(DOMAIN db_state.epics), os \in Orders(DOMAIN db_state.stories)}

\* the positions of the members named key
members_named(obj, key) == {i \in DOMAIN obj.members : obj.members[i][1] = key}

\* a struct field: present once in an object
has_field(v, key) == v.json = "object" /\ Cardinality(members_named(v, key)) = 1

field(v, key) == v.members[CHOOSE i \in members_named(v, key) : TRUE][2]

is_string_field(v, key) == has_field(v, key) /\ field(v, key).json = "string"

is_status_field(v, key) == is_string_field(v, key) /\ field(v, key).s \in Status

is_story_json(v) ==
    /\ is_string_field(v, "name")
    /\ is_string_field(v, "description")
    /\ is_status_field(v, "status")

is_epic_json(v) ==
    /\ is_story_json(v)
    /\ has_field(v, "stories")
    /\ field(v, "stories").json = "array"
    /\ \A i \in DOMAIN field(v, "stories").items : field(v, "stories").items[i].json = "string"

Story_from_json(v) ==
    [name |-> field(v, "name").s, description |-> field(v, "description").s,
     status |-> field(v, "status").s]

Epic_from_json(v) ==
    [name |-> field(v, "name").s, description |-> field(v, "description").s,
     status |-> field(v, "status").s,
     stories |-> [i \in DOMAIN field(v, "stories").items |-> field(v, "stories").items[i].s]]

\* a HashMap field: an object; of members with the same key the last one stays
map_keys(obj) == {obj.members[i][1] : i \in DOMAIN obj.members}

map_value(obj, key) ==
    obj.members[CHOOSE i \in members_named(obj, key) :
                    \A j \in members_named(obj, key) : j <= i][2]

is_map_json(v, key) ==
    /\ has_field(v, key)
    /\ field(v, key).json = "object"

FormatFailure == "Failed to write current state to memory."

IOFailure == "Failed to read from file system."

\* std::fs::write failed
WriteFailure == "io"

\* serde_json::from_str::<DBState>(&file_contents)
from_str(doc) ==
    IF /\ is_map_json(doc, "epics")
       /\ \A i \in DOMAIN field(doc, "epics").members :
            is_epic_json(field(doc, "epics").members[i][2])
       /\ is_map_json(doc, "stories")
       /\ \A i \in DOMAIN field(doc, "stories").members :
            is_story_json(field(doc, "stories").members[i][2])
       /\ is_string_field(doc, "last_item_id")
    THEN Ok([epics |-> [k \in map_keys(field(doc, "epics")) |->
                           Epic_from_json(map_value(field(doc, "epics"), k))],
             stories |-> [k \in map_keys(field(doc, "stories")) |->
                           Story_from_json(map_value(field(doc, "stories"), k))],
             last_item_id |-> field(doc, "last_item_id").s])
    ELSE Err(FormatFailure)

\* JSONFileDatabase::read_db
JSONFileDatabase_read_db(file) ==
    IF file = NoFile THEN Err(IOFailure) ELSE from_str(file)

----------------------------------------------------------------------------
(* Repository: JiraDatabase *)

\* create_epic storing the caller's Epic value instead of Epic::new(name, description)
create_epic_keeps_input(db_state, epic, id) ==
    LET s1 == [db_state EXCEPT !.epics = insert(db_state.epics, id, epic)]
        s2 == [s1 EXCEPT !.last_item_id = id]
    IN Outcome(Ok(id), TRUE, s2)

create_epic(db_state, epic, id) ==
    LET new_epic == Epic_new(epic.name, epic.description)
        s1 == [db_state EXCEPT !.epics = insert(db_state.epics, id, new_epic)]
        s2 == [s1 EXCEPT !.last_item_id = id]
    IN Outcome(Ok(id), TRUE, s2)

\* create_story inserting the story and writing before it checks the epic
create_story_checks_late(db_state, story, epic_id, id) ==
    LET new_story == Story_new(story.name, story.description)
        s1 == [db_state EXCEPT !.last_item_id = id]
        s2 == [s1 EXCEPT !.stories = insert(s1.stories, id, new_story)]
    IN IF ~contains_key(db_state.epics, epic_id)
       THEN Outcome(Err(EpicNotFound), TRUE, s2)
       ELSE Outcome(Ok(id), TRUE,
                    [s2 EXCEPT !.epics[epic_id].stories = Append(@, id)])

\* create_story putting the new id at the front of the epic's stories
create_story_prepends(db_state, story, epic_id, id) ==
    LET new_story == Story_new(story.name, story.description)
    IN IF ~contains_key(db_state.epics, epic_id)
       THEN Outcome(Err(EpicNotFound), FALSE, db_state)
       ELSE LET s1 == [db_state EXCEPT !.last_item_id = id]
                s2 == [s1 EXCEPT !.stories = insert(s1.stories, id, new_story)]
                s3 == [s2 EXCEPT !.epics[epic_id].stories = <<id>> \o @]
            IN Outcome(Ok(id), TRUE, s3)

create_story(db_state, story, epic_id, id) ==
    LET new_story == Story_new(story.name, story.description)
    IN IF ~contains_key(db_state.epics, epic_id)
       THEN Outcome(Err(EpicNotFound), FALSE, db_state)
       ELSE LET s1 == [db_state EXCEPT !.last_item_id = id]
                s2 == [s1 EXCEPT !.stories = insert(s1.stories, id, new_story)]
                s3 == [s2 EXCEPT !.epics[epic_id].stories = Append(@, id)]
            IN Outcome(Ok(id), TRUE, s3)

RECURSIVE remove_all(_, _)
\* for story_id in epic.stories.iter() { db_state.stories.remove(story_id); }
remove_all(m, seq) ==
    IF seq = <<>> THEN m ELSE remove_all(remove(m, Head(seq)), Tail(seq))

\* delete_epic without the loop that removes the epic's stories
delete_epic_keeps_stories(db_state, epic_id) ==
    IF ~contains_key(db_state.epics, epic_id)
    THEN Outcome(Err(EpicNotFound), FALSE, db_state)
    ELSE LET s2 == [db_state EXCEPT !.epics = remove(@, epic_id)]
             s3 == [s2 EXCEPT !.last_item_id = epic_id]
         IN Outcome(Ok("unit"), TRUE, s3)

delete_epic(db_state, epic_id) ==
    IF ~contains_key(db_state.epics, epic_id)
    THEN Outcome(Err(EpicNotFound), FALSE, db_state)
    ELSE LET epic == db_state.epics[epic_id]
             s1 == [db_state EXCEPT !.stories = remove_all(@, epic.stories)]
             s2 == [s1 EXCEPT !.epics = remove(@, epic_id)]
             s3 == [s2 EXCEPT !.last_item_id = epic_id]
         IN Outcome(Ok("unit"), TRUE, s3)

\* delete_story emptying the epic's stories instead of retaining the other ids
delete_story_clears(db_state, epic_id, story_id) ==
    IF ~contains_key(db_state.stories, story_id)
    THEN Outcome(Err(StoryNotFound), FALSE, db_state)
    ELSE IF ~contains_key(db_state.epics, epic_id)
    THEN Outcome(Err(EpicNotFound), FALSE, db_state)
    ELSE LET s1 == [db_state EXCEPT !.epics[epic_id].stories = <<>>]
             s2 == [s1 EXCEPT !.stories = remove(@, story_id)]
             s3 == [s2 EXCEPT !.last_item_id = story_id]
         IN Outcome(Ok("unit"), TRUE, s3)

\* delete_story removing the story and writing before it looks for the epic
delete_story_removes_early(db_state, epic_id, story_id) ==
    IF ~contains_key(db_state.stories, story_id)
    THEN Outcome(Err(StoryNotFound), FALSE, db_state)
    ELSE LET s0 == [db_state EXCEPT !.stories = remove(@, story_id)]
         IN IF ~contains_key(db_state.epics, epic_id)
            THEN Outcome(Err(EpicNotFound), TRUE, s0)
            ELSE LET s1 == [s0 EXCEPT !.epics[epic_id].stories = retain_ne(@, story_id)]
                     s3 == [s1 EXCEPT !.last_item_id = story_id]
                 IN Outcome(Ok("unit"), TRUE, s3)

\* delete_story refusing a story that the given epic does not list
delete_story_checks_owner(db_state, epic_id, story_id) ==
    IF ~contains_key(db_state.stories, story_id)
    THEN Outcome(Err(StoryNotFound), FALSE, db_state)
    ELSE IF ~contains_key(db_state.epics, epic_id)
    THEN Outcome(Err(EpicNotFound), FALSE, db_state)
    ELSE IF ~contains(db_state.epics[epic_id].stories, story_id)
    THEN Outcome(Err(StoryNotFound), FALSE, db_state)
    ELSE LET s1 == [db_state EXCEPT !.epics[epic_id].stories = retain_ne(@, story_id)]
             s2 == [s1 EXCEPT !.stories = remove(@, story_id)]
             s3 == [s2 EXCEPT !.last_item_id = story_id]
         IN Outcome(Ok("unit"), TRUE, s3)

delete_story(db_state, epic_id, story_id) ==
    IF ~contains_key(db_state.stories, story_id)
    THEN Outcome(Err(StoryNotFound), FALSE, db_state)
    ELSE IF ~contains_key(db_state.epics, epic_id)
    THEN Outcome(Err(EpicNotFound), FALSE, db_state)
    ELSE LET s1 == [db_state EXCEPT !.epics[epic_id].stories = retain_ne(@, story_id)]
             s2 == [s1 EXCEPT !.stories = remove(@, story_id)]
             s3 == [s2 EXCEPT !.last_item_id = story_id]
         IN Outcome(Ok("unit"), TRUE, s3)

\* update_epic_status recording the epic as the last touched item
update_epic_status_touches(db_state, epic_id, status) ==
    IF ~contains_key(db_state.epics, epic_id)
    THEN Outcome(Err(EpicNotFound), FALSE, db_state)
    ELSE Outcome(Ok("unit"), TRUE,
                 [db_state EXCEPT !.epics[epic_id].status = status,
                                  !.last_item_id = epic_id])

update_epic_status(db_state, epic_id, status) ==
    IF ~contains_key(db_state.epics, epic_id)
    THEN Outcome(Err(EpicNotFound), FALSE, db_state)
    ELSE Outcome(Ok("unit"), TRUE, [db_state EXCEPT !.epics[epic_id].status = status])

\* update_story_status closing the story whatever status was passed
update_story_status_closes(db_state, story_id, status) ==
    IF ~contains_key(db_state.stories, story_id)
    THEN Outcome(Err(StoryNotFound), FALSE, db_state)
    ELSE Outcome(Ok("unit"), TRUE, [db_state EXCEPT !.stories[story_id].status = "Closed"])

\* update_story_status recording the story as the last touched item
update_story_status_touches(db_state, story_id, status) ==
    IF ~contains_key(db_state.stories, story_id)
    THEN Outcome(Err(StoryNotFound), FALSE, db_state)
    ELSE Outcome(Ok("unit"), TRUE,
                 [db_state EXCEPT !.stories[story_id].status = status,
                                  !.last_item_id = story_id])

update_story_status(db_state, story_id, status) ==
    IF ~contains_key(db_state.stories, story_id)
    THEN Outcome(Err(StoryNotFound), FALSE, db_state)
    ELSE Outcome(Ok("unit"), TRUE, [db_state EXCEPT !.stories[story_id].status = status])

\* get_epic writing the state it loaded back before it returns
get_epic_persists(db_state, epic_id) ==
    IF ~contains_key(db_state.epics, epic_id)
    THEN Outcome(Err(EpicNotFound), FALSE, db_state)
    ELSE Outcome(Ok(db_state.epics[epic_id]), TRUE, db_state)

get_epic(db_state, epic_id) ==
    IF ~contains_key(db_state.epics, epic_id)
    THEN Outcome(Err(EpicNotFound), FALSE, db_state)
    ELSE Outcome(Ok(db_state.epics[epic_id]), FALSE, db_state)

\* get_epic_story looking the story up globally, not in the epic's stories
get_epic_story_global(db_state, epic_id, story_id) ==
    IF ~contains_key(db_state.epics, epic_id)
    THEN Outcome(Err(EpicNotFound), FALSE, db_state)
    ELSE IF ~contains_key(db_state.stories, story_id)
    THEN Outcome(Err(StoryNotFound), FALSE, db_state)
    ELSE Outcome(Ok(db_state.stories[story_id]), FALSE, db_state)

get_epic_story(db_state, epic_id, story_id) ==
    IF ~contains_key(db_state.epics, epic_id)
    THEN Outcome(Err(EpicNotFound), FALSE, db_state)
    ELSE IF ~contains(db_state.epics[epic_id].stories, story_id)
    THEN Outcome(Err(StoryNotFound), FALSE, db_state)
    ELSE IF ~contains_key(db_state.stories, story_id)
    THEN Outcome(Panic, FALSE, db_state)
    ELSE Outcome(Ok(db_state.stories[story_id]), FALSE, db_state)

----------------------------------------------------------------------------
(* Page contract: HomePage *)

None == [kind |-> "None"]

Some(action) == [kind |-> "Some", action |-> action]

\* HomePage::handle_input navigating to any id the state knows, epic or story
HomePage_handle_input_any_id(db_state, input) ==
    IF input = "q" THEN Ok(Some([type |-> "Exit"]))
    ELSE IF input = "c" THEN Ok(Some([type |-> "CreateEpic"]))
    ELSE IF contains_key(db_state.epics, input) \/ contains_key(db_state.stories, input)
    THEN Ok(Some([type |-> "NavigateToEpicDetail", epic_id |-> input]))
    ELSE Ok(None)

\* HomePage::handle_input over the state its read_db call returned
HomePage_handle_input(db_state, input) ==
    IF input = "q" THEN Ok(Some([type |-> "Exit"]))
    ELSE IF input = "c" THEN Ok(Some([type |-> "CreateEpic"]))
    ELSE IF contains_key(db_state.epics, input)
    THEN Ok(Some([type |-> "NavigateToEpicDetail", epic_id |-> input]))
    ELSE Ok(None)

\* HomePage::draw_page: the ids of the rows it prints
HomePage_draw_page(db_state) == Ok(DOMAIN db_state.epics)

----------------------------------------------------------------------------
(* Page contract: EpicDetail, bound to epic_id *)

EpicPageNotFound == "Could not find epic!"

StoryPageNotFound == "could not find story!"

\* EpicDetail::draw_page looking every listed story up instead of filtering
EpicDetail_draw_page_strict(db_state, epic_id) ==
    IF ~contains_key(db_state.epics, epic_id)
    THEN Err(EpicPageNotFound)
    ELSE LET epic == db_state.epics[epic_id]
         IN IF \E i \in 1..Len(epic.stories) : ~contains_key(db_state.stories, epic.stories[i])
            THEN Err(StoryPageNotFound)
            ELSE Ok({id \in DOMAIN db_state.stories : contains(epic.stories, id)})

\* EpicDetail::draw_page: the ids of the story rows it prints
EpicDetail_draw_page(db_state, epic_id) ==
    IF ~contains_key(db_state.epics, epic_id)
    THEN Err(EpicPageNotFound)
    ELSE LET epic == db_state.epics[epic_id]
         IN Ok({id \in DOMAIN db_state.stories : contains(epic.stories, id)})

\* EpicDetail::handle_input accepting any key of the global stories mapping
EpicDetail_handle_input_any_story(db_state, epic_id, input) ==
    LET got == get_epic(db_state, epic_id).res
    IN IF got.kind # "Ok" THEN got
       ELSE IF input = "p" THEN Ok(Some([type |-> "NavigateToPreviousPage"]))
       ELSE IF input = "u" THEN Ok(Some([type |-> "UpdateEpicStatus", epic_id |-> epic_id]))
       ELSE IF input = "d" THEN Ok(Some([type |-> "DeleteEpic", epic_id |-> epic_id]))
       ELSE IF input = "c" THEN Ok(Some([type |-> "CreateStory", epic_id |-> epic_id]))
       ELSE IF contains_key(db_state.stories, input)
       THEN Ok(Some([type |-> "NavigateToStoryDetail", epic_id |-> epic_id,
                     story_id |-> input]))
       ELSE Ok(None)

\* EpicDetail::handle_input over the state its get_epic call read
EpicDetail_handle_input(db_state, epic_id, input) ==
    LET got == get_epic(db_state, epic_id).res
    IN IF got.kind # "Ok" THEN got
       ELSE IF input = "p" THEN Ok(Some([type |-> "NavigateToPreviousPage"]))
       ELSE IF input = "u" THEN Ok(Some([type |-> "UpdateEpicStatus", epic_id |-> epic_id]))
       ELSE IF input = "d" THEN Ok(Some([type |-> "DeleteEpic", epic_id |-> epic_id]))
       ELSE IF input = "c" THEN Ok(Some([type |-> "CreateStory", epic_id |-> epic_id]))
       ELSE IF contains(got.value.stories, input)
       THEN Ok(Some([type |-> "NavigateToStoryDetail", epic_id |-> epic_id,
                     story_id |-> input]))
       ELSE Ok(None)

----------------------------------------------------------------------------
(* Page contract: StoryDetail, bound to epic_id and story_id *)

\* StoryDetail::draw_page reaching the story through its bound epic
StoryDetail_draw_page_via_epic(db_state, epic_id, story_id) ==
    IF get_epic_story(db_state, epic_id, story_id).res.kind # "Ok"
    THEN Err(StoryPageNotFound)
    ELSE Ok(story_id)

StoryDetail_draw_page(db_state, epic_id, story_id) ==
    IF ~contains_key(db_state.stories, story_id)
    THEN Err(StoryPageNotFound)
    ELSE Ok(story_id)

\* StoryDetail::handle_input loading the story through the epic first
StoryDetail_handle_input_loads(epic_id, story_id, input) ==
    LET got == get_epic_story(read_db, epic_id, story_id).res
    IN IF got.kind # "Ok" THEN got
       ELSE IF input = "p" THEN Ok(Some([type |-> "NavigateToPreviousPage"]))
       ELSE IF input = "u" THEN Ok(Some([type |-> "UpdateStoryStatus", story_id |-> story_id]))
       ELSE IF input = "d"
       THEN Ok(Some([type |-> "DeleteStory", epic_id |-> epic_id, story_id |-> story_id]))
       ELSE Ok(None)

\* StoryDetail::handle_input: it makes no call on self.db
StoryDetail_handle_input(epic_id, story_id, input) ==
    IF input = "p" THEN Ok(Some([type |-> "NavigateToPreviousPage"]))
    ELSE IF input = "u" THEN Ok(Some([type |-> "UpdateStoryStatus", story_id |-> story_id]))
    ELSE IF input = "d"
    THEN Ok(Some([type |-> "DeleteStory", epic_id |-> epic_id, story_id |-> story_id]))
    ELSE Ok(None)

----------------------------------------------------------------------------
(* The calls a caller can make, one action per JiraDatabase method *)

NoArg == "-"

Call(op, epic_id, story_id, item, input, res) ==
    [op |-> op, epic_id |-> epic_id, story_id |-> story_id, item |-> item,
     input |-> input, res |-> res]

\* write_db when the method reached it, nothing otherwise
Returned(op, epic_id, story_id, item, input, out) ==
    /\ last_written_state' = IF out.write THEN out.db_state ELSE last_written_state
    /\ pre' = last_written_state
    /\ call' = Call(op, epic_id, story_id, item, input, out.res)

\* a call made outside main's loop
Finish(op, epic_id, story_id, item, input, out) ==
    /\ Returned(op, epic_id, story_id, item, input, out)
    /\ UNCHANGED <<database, main, backend_calls>>

\* Navigator::new: the pages it starts with
HomePage == [page |-> "HomePage", epic_id |-> NoArg, story_id |-> NoArg]

\* main() before its first iteration
main_start == [pc |-> "clear", pages |-> <<HomePage>>, input |-> NoArg, acknowledged |-> FALSE]

\* the Epic and Story values a caller can pass to the create methods
InputEpics ==
    [name : Names, description : Descriptions, status : Status, stories : InputStories]

InputStorys == [name : Names, description : Descriptions, status : Status]

Init ==
    /\ last_written_state = MockDB_new
    /\ issued = {}
    /\ pre = MockDB_new
    /\ call = Call("new", NoArg, NoArg, NoArg, NoArg, Ok("unit"))
    /\ database = MockDB
    /\ main = main_start
    /\ backend_calls = <<>>

CreateEpic ==
    \E epic \in InputEpics, id \in nanoid :
        /\ Finish("create_epic", NoArg, NoArg, epic, NoArg, create_epic(read_db, epic, id))
        /\ issued' = issued \cup {id}

CreateStory ==
    \E story \in InputStorys, epic_id \in Ids :
        \/ /\ ~contains_key(read_db.epics, epic_id)
           /\ Finish("create_story", epic_id, NoArg, story, NoArg,
                     create_story(read_db, story, epic_id, NoArg))
           /\ UNCHANGED issued
        \/ /\ contains_key(read_db.epics, epic_id)
           /\ \E id \in nanoid :
                /\ Finish("create_story", epic_id, NoArg, story, NoArg,
                          create_story(read_db, story, epic_id, id))
                /\ issued' = issued \cup {id}

DeleteEpic ==
    \E epic_id \in Ids :
        /\ Finish("delete_epic", epic_id, NoArg, NoArg, NoArg, delete_epic(read_db, epic_id))
        /\ UNCHANGED issued

DeleteStory ==
    \E epic_id \in Ids, story_id \in Ids :
        /\ Finish("delete_story", epic_id, story_id, NoArg, NoArg,
                  delete_story(read_db, epic_id, story_id))
        /\ UNCHANGED issued

UpdateEpicStatus ==
    \E epic_id \in Ids, status \in StatusArgs :
        /\ Finish("update_epic_status", epic_id, NoArg, status, NoArg,
                  update_epic_status(read_db, epic_id, status))
        /\ UNCHANGED issued

UpdateStoryStatus ==
    \E story_id \in Ids, status \in StatusArgs :
        /\ Finish("update_story_status", NoArg, story_id, status, NoArg,
                  update_story_status(read_db, story_id, status))
        /\ UNCHANGED issued

GetEpic ==
    \E epic_id \in Ids :
        /\ Finish("get_epic", epic_id, NoArg, NoArg, NoArg, get_epic(read_db, epic_id))
        /\ UNCHANGED issued

GetEpicStory ==
    \E epic_id \in Ids, story_id \in Ids :
        /\ Finish("get_epic_story", epic_id, story_id, NoArg, NoArg,
                  get_epic_story(read_db, epic_id, story_id))
        /\ UNCHANGED issued

Inputs == {"q", "c", "p", ""} \cup Ids

HomePageHandleInput ==
    \E input \in Inputs :
        /\ Finish("HomePage.handle_input", NoArg, NoArg, NoArg, input,
                  Outcome(HomePage_handle_input(read_db, input), FALSE, read_db))
        /\ UNCHANGED issued

Next ==
    \/ CreateEpic
    \/ CreateStory
    \/ DeleteEpic
    \/ DeleteStory
    \/ UpdateEpicStatus
    \/ UpdateStoryStatus
    \/ GetEpic
    \/ GetEpicStory
    \/ HomePageHandleInput

Spec == Init /\ [][Next]_vars

----------------------------------------------------------------------------
(* The page calls the driving loop makes, on a page bound to any ids *)

\* a page that records the id it was asked about as the last touched item
PageCall_touches(op, epic_id, story_id, input, res) ==
    /\ Finish(op, epic_id, story_id, NoArg, input,
              Outcome(res, TRUE, [read_db EXCEPT !.last_item_id = input]))
    /\ UNCHANGED issued

\* draw_page and handle_input have no path to write_db
PageCall(op, epic_id, story_id, input, res) ==
    /\ Finish(op, epic_id, story_id, NoArg, input, Outcome(res, FALSE, read_db))
    /\ UNCHANGED issued

EpicInputs == {"p", "u", "d", "c", "q", ""} \cup Ids

StoryInputs == {"p", "u", "d", "c", ""}

HomePageDrawPage ==
    PageCall("HomePage.draw_page", NoArg, NoArg, NoArg, HomePage_draw_page(read_db))

HomePageHandleInputCall ==
    \E input \in Inputs :
        PageCall("HomePage.handle_input", NoArg, NoArg, input,
                 HomePage_handle_input(read_db, input))

EpicDetailDrawPage ==
    \E epic_id \in Ids :
        PageCall("EpicDetail.draw_page", epic_id, NoArg, NoArg,
                 EpicDetail_draw_page(read_db, epic_id))

EpicDetailHandleInput ==
    \E epic_id \in Ids, input \in EpicInputs :
        PageCall("EpicDetail.handle_input", epic_id, NoArg, input,
                 EpicDetail_handle_input(read_db, epic_id, input))

StoryDetailDrawPage ==
    \E epic_id \in Ids, story_id \in Ids :
        PageCall("StoryDetail.draw_page", epic_id, story_id, NoArg,
                 StoryDetail_draw_page(read_db, epic_id, story_id))

StoryDetailHandleInput ==
    \E epic_id \in Ids, story_id \in Ids, input \in StoryInputs :
        PageCall("StoryDetail.handle_input", epic_id, story_id, input,
                 StoryDetail_handle_input(epic_id, story_id, input))

\* the calls that change which ids exist, and the page calls; no page result
\* reads a status, so the status updates are left to Spec
PageNext ==
    \/ CreateEpic
    \/ CreateStory
    \/ DeleteEpic
    \/ DeleteStory
    \/ HomePageDrawPage
    \/ HomePageHandleInputCall
    \/ EpicDetailDrawPage
    \/ EpicDetailHandleInput
    \/ StoryDetailDrawPage
    \/ StoryDetailHandleInput

PageSpec == Init /\ [][PageNext]_vars

----------------------------------------------------------------------------
(* The status updates with more than one status to set *)

NewStatuses == {"InProgress", "Closed"}

UpdateEpicStatusTo ==
    \E epic_id \in Ids, status \in NewStatuses :
        /\ Finish("update_epic_status", epic_id, NoArg, status, NoArg,
                  update_epic_status(read_db, epic_id, status))
        /\ UNCHANGED issued

UpdateStoryStatusTo ==
    \E story_id \in Ids, status \in NewStatuses :
        /\ Finish("update_story_status", NoArg, story_id, status, NoArg,
                  update_story_status(read_db, story_id, status))
        /\ UNCHANGED issued

\* the creates, to have epics and stories, and the two updates
StatusNext ==
    \/ CreateEpic
    \/ CreateStory
    \/ UpdateEpicStatusTo
    \/ UpdateStoryStatusTo

StatusSpec == Init /\ [][StatusNext]_vars

----------------------------------------------------------------------------
(* The Database trait called directly, on either backend *)

\* JSONFileDatabase { file_path }, with what the file at file_path holds
JSONFileDatabase(file_path, file) ==
    [kind |-> "JSONFileDatabase", file_path |-> file_path, file |-> file]

\* a path in the working directory, and one whose directory does not exist
FilePaths == {"db.json", "INVALID_PATH/db.json"}

creatable(file_path) == file_path = "db.json"

\* r#"{ "last_item_id": "0", "epics": {}, "stories": {} }"#
ParsableFile ==
    JObject(<< <<"last_item_id", JString("0")>>, <<"epics", JObject(<<>>)>>,
               <<"stories", JObject(<<>>)>> >>)

\* text that is no JSON document
MalformedFile == [json |-> "malformed"]

\* a JSON document with a number where DBState has a String
MistypedFile ==
    JObject(<< <<"last_item_id", JNumber(0)>>, <<"epics", JObject(<<>>)>>,
               <<"stories", JObject(<<>>)>> >>)

\* what can be at file_path when the program starts
InitialFiles == {NoFile, ParsableFile, MalformedFile, MistypedFile}

\* history: no write_db has succeeded yet
Nothing == [persisted |-> "nothing"]

\* MockDB::read_db: a clone of the cell
MockDB_read_db(cell) == Ok(cell)

\* MockDB::read_db gave the caller a clone, so the cell keeps its value when
\* the caller changes what it was given
cell_after_change(cell, changed) == cell

\* Database::read_db on the backend in use
Database_read_db ==
    IF database.kind = "MockDB"
    THEN MockDB_read_db(last_written_state)
    ELSE JSONFileDatabase_read_db(database.file)

\* the DBState values a caller hands to write_db
EpicKeys == {IdNames[1], IdNames[2]}

StoryKeys == {IdNames[3]}

StoredStatuses == {"Open", "InProgress"}

StoredEpics ==
    [name : Names, description : Descriptions, status : StoredStatuses,
     stories : {<<>>, <<IdNames[3]>>}]

StoredStorys == [name : Names, description : Descriptions, status : {"InProgress"}]

Maps(keys, values) == UNION {[ks -> values] : ks \in SUBSET keys}

DBStates ==
    [last_item_id : {"0", IdNames[1]},
     epics : Maps(EpicKeys, StoredEpics),
     stories : Maps(StoryKeys, StoredStorys)]

\* the changes a caller makes to a DBState it holds
Changes(db_state) ==
    {[db_state EXCEPT !.last_item_id = IdNames[2]],
     [db_state EXCEPT !.epics = EmptyMap],
     [db_state EXCEPT !.stories = EmptyMap]} \ {db_state}

RoundTripInit ==
    /\ last_written_state = MockDB_new
    /\ issued = {}
    /\ call = Call("new", NoArg, NoArg, NoArg, NoArg, Ok("unit"))
    /\ main = main_start
    /\ backend_calls = <<>>
    /\ \/ /\ database = MockDB
          /\ pre = MockDB_new
       \/ /\ \E file_path \in FilePaths, file \in InitialFiles :
                /\ ~creatable(file_path) => file = NoFile
                /\ database = JSONFileDatabase(file_path, file)
          /\ pre = Nothing

\* MockDB::write_db
MockDBWriteDb ==
    \E db_state \in DBStates :
        /\ database.kind = "MockDB"
        /\ last_written_state' = db_state
        /\ pre' = db_state
        /\ call' = Call("write_db", NoArg, NoArg, db_state, NoArg, Ok("unit"))
        /\ UNCHANGED <<issued, database, main, backend_calls>>

\* JSONFileDatabase::write_db
JSONFileWriteDb ==
    \E db_state \in DBStates :
        /\ database.kind = "JSONFileDatabase"
        /\ \/ /\ creatable(database.file_path)
              /\ \E file_contents \in to_string_pretty(db_state) :
                    database' = [database EXCEPT !.file = file_contents]
              /\ pre' = db_state
              /\ call' = Call("write_db", NoArg, NoArg, db_state, NoArg, Ok("unit"))
           \/ /\ call' = Call("write_db", NoArg, NoArg, db_state, NoArg, Err(WriteFailure))
              /\ UNCHANGED <<database, pre>>
           \/ /\ creatable(database.file_path)
              /\ database' = [database EXCEPT !.file = MalformedFile]
              /\ pre' = Nothing
              /\ call' = Call("write_db", NoArg, NoArg, db_state, NoArg, Err(WriteFailure))
        /\ UNCHANGED <<last_written_state, issued, main, backend_calls>>

\* Database::read_db
ReadDb ==
    /\ call' = Call("read_db", NoArg, NoArg, NoArg, NoArg, Database_read_db)
    /\ UNCHANGED <<last_written_state, issued, pre, database, main, backend_calls>>

\* the caller changes the DBState its read_db returned, and does not write it
ChangeLoaded ==
    /\ call.op = "read_db"
    /\ call.res.kind = "Ok"
    /\ \E changed \in Changes(call.res.value) :
          /\ call' = Call("change_loaded", NoArg, NoArg, changed, NoArg, Ok("unit"))
          /\ last_written_state' =
                IF database.kind = "MockDB"
                THEN cell_after_change(last_written_state, changed)
                ELSE last_written_state
    /\ UNCHANGED <<issued, pre, database, main, backend_calls>>

RoundTripNext ==
    \/ MockDBWriteDb
    \/ JSONFileWriteDb
    \/ ReadDb
    \/ ChangeLoaded

RoundTripSpec == RoundTripInit /\ [][RoundTripNext]_vars

----------------------------------------------------------------------------
(* main(): the driving loop, and the navigator it hands every action to *)

EpicDetail(epic_id) == [page |-> "EpicDetail", epic_id |-> epic_id, story_id |-> NoArg]

StoryDetail(epic_id, story_id) ==
    [page |-> "StoryDetail", epic_id |-> epic_id, story_id |-> story_id]

\* navigator.get_current_page(): the page on top, when there is one
get_current_page == main.pages[Len(main.pages)]

\* the navigator takes the page on top away
pop(pages) == SubSeq(pages, 1, Len(pages) - 1)

\* page.draw_page() through dyn Page: every page reads the backend first
draw_page(page) ==
    IF Database_read_db.kind # "Ok" THEN Database_read_db
    ELSE CASE page.page = "HomePage" -> HomePage_draw_page(Database_read_db.value)
           [] page.page = "EpicDetail" ->
                EpicDetail_draw_page(Database_read_db.value, page.epic_id)
           [] page.page = "StoryDetail" ->
                StoryDetail_draw_page(Database_read_db.value, page.epic_id, page.story_id)

\* page.handle_input(user_input.trim()) through dyn Page: HomePage and
\* EpicDetail read the backend first, StoryDetail does not read it
handle_input(page, input) ==
    IF page.page = "StoryDetail"
    THEN StoryDetail_handle_input(page.epic_id, page.story_id, input)
    ELSE IF Database_read_db.kind # "Ok" THEN Database_read_db
    ELSE IF page.page = "HomePage"
    THEN HomePage_handle_input(Database_read_db.value, input)
    ELSE EpicDetail_handle_input(Database_read_db.value, page.epic_id, input)

\* the lines get_user_input() can return, trimmed
UserInputs == {"q", "c", "p", "u", "d", ""} \cup Ids

\* ./data/db.json when the program starts: a store that works, no file, or
\* a file that does not parse
LoopInit ==
    /\ last_written_state = MockDB_new
    /\ issued = {}
    /\ pre = MockDB_new
    /\ call = Call("new", NoArg, NoArg, NoArg, NoArg, Ok("unit"))
    /\ main = main_start
    /\ backend_calls = <<>>
    /\ database \in {MockDB, JSONFileDatabase("db.json", NoFile),
                     JSONFileDatabase("db.json", MalformedFile)}

\* clearscreen::clear().unwrap(), the clear having worked
Clear ==
    /\ main.pc = "clear"
    /\ main' = [main EXCEPT !.pc = "get_current_page"]
    /\ UNCHANGED <<last_written_state, issued, pre, call, database, backend_calls>>

\* clearscreen::clear().unwrap(), the clear having failed: unwrap panics
ClearPanics ==
    /\ main.pc = "clear"
    /\ main' = [main EXCEPT !.pc = "panicked"]
    /\ UNCHANGED <<last_written_state, issued, pre, call, database, backend_calls>>

\* if let Some(page) = navigator.get_current_page(); with no page the body
\* is skipped and the loop starts over
GetCurrentPage ==
    /\ main.pc = "get_current_page"
    /\ main' = [main EXCEPT !.pc = IF main.pages = <<>> THEN "clear" ELSE "draw_page"]
    /\ UNCHANGED <<last_written_state, issued, pre, call, database, backend_calls>>

DrawPage ==
    /\ main.pc = "draw_page"
    /\ LET page == get_current_page
           res == draw_page(page)
       IN /\ Returned(page.page \o ".draw_page", page.epic_id, page.story_id, NoArg, NoArg,
                      Outcome(res, FALSE, last_written_state))
          /\ main' = [main EXCEPT !.pc = IF res.kind = "Ok" THEN "get_user_input"
                                         ELSE "report_draw_page",
                                  !.acknowledged = FALSE]
    /\ UNCHANGED <<issued, database, backend_calls>>

\* println!("Error rendering page: ..."); wait_for_key_press();
ReportDrawPage ==
    /\ main.pc = "report_draw_page"
    /\ main' = [main EXCEPT !.pc = "get_user_input", !.acknowledged = TRUE]
    /\ UNCHANGED <<last_written_state, issued, pre, call, database, backend_calls>>

GetUserInput ==
    /\ main.pc = "get_user_input"
    /\ \E user_input \in UserInputs :
          main' = [main EXCEPT !.pc = "handle_input", !.input = user_input]
    /\ UNCHANGED <<last_written_state, issued, pre, call, database, backend_calls>>

HandleInput ==
    /\ main.pc = "handle_input"
    /\ LET page == get_current_page
           res == handle_input(page, main.input)
       IN /\ Returned(page.page \o ".handle_input", page.epic_id, page.story_id, NoArg,
                      main.input, Outcome(res, FALSE, last_written_state))
          /\ main' = [main EXCEPT !.pc = IF res.kind # "Ok" THEN "report_handle_input"
                                         ELSE IF res.value = None THEN "clear"
                                         ELSE "handle_action",
                                  !.input = NoArg]
    /\ UNCHANGED <<issued, database, backend_calls>>

\* println!("Error getting user input: ..."); wait_for_key_press();
ReportHandleInput ==
    /\ main.pc = "report_handle_input"
    /\ main' = [main EXCEPT !.pc = "clear", !.acknowledged = TRUE]
    /\ UNCHANGED <<last_written_state, issued, pre, call, database, backend_calls>>

\* the action handle_input returned, which main hands to the navigator
handed(type) ==
    /\ main.pc = "handle_action"
    /\ call.res.value.action.type = type

\* navigator.handle_action(action) returned: Ok ends the iteration
handle_action_returned(res, pages) ==
    main' = [main EXCEPT !.pc = IF res.kind = "Ok" THEN "clear" ELSE "report_handle_action",
                         !.pages = pages]

\* the navigator changes the active page and calls no JiraDatabase method
Navigate(pages) ==
    /\ handle_action_returned(Ok("unit"), pages)
    /\ UNCHANGED <<last_written_state, issued, pre, call, database, backend_calls>>

NavigateToEpicDetail ==
    /\ handed("NavigateToEpicDetail")
    /\ Navigate(Append(main.pages, EpicDetail(call.res.value.action.epic_id)))

NavigateToStoryDetail ==
    /\ handed("NavigateToStoryDetail")
    /\ Navigate(Append(main.pages, StoryDetail(call.res.value.action.epic_id,
                                               call.res.value.action.story_id)))

NavigateToPreviousPage ==
    /\ handed("NavigateToPreviousPage")
    /\ Navigate(pop(main.pages))

Exit ==
    /\ handed("Exit")
    /\ Navigate(<<>>)

\* the navigator calls one JiraDatabase method; after a delete that worked
\* it may take the page of the deleted item away
Execute(op, epic_id, story_id, item, out, pops) ==
    /\ Returned(op, epic_id, story_id, item, NoArg, out)
    /\ \E pages \in {main.pages} \cup
                    (IF pops /\ out.res.kind = "Ok" THEN {pop(main.pages)} ELSE {}) :
          handle_action_returned(out.res, pages)
    /\ UNCHANGED <<database, backend_calls>>

NavigatorCreateEpic ==
    /\ handed("CreateEpic")
    /\ \E name \in Names, description \in Descriptions, id \in nanoid :
          /\ Execute("create_epic", NoArg, NoArg, Epic_new(name, description),
                     create_epic(read_db, Epic_new(name, description), id), FALSE)
          /\ issued' = issued \cup {id}

NavigatorCreateStory ==
    /\ handed("CreateStory")
    /\ \E name \in Names, description \in Descriptions, id \in nanoid :
          LET epic_id == call.res.value.action.epic_id
              out == create_story(read_db, Story_new(name, description), epic_id, id)
          IN /\ Execute("create_story", epic_id, NoArg, Story_new(name, description), out,
                        FALSE)
             /\ issued' = IF out.res.kind = "Ok" THEN issued \cup {id} ELSE issued

NavigatorUpdateEpicStatus ==
    /\ handed("UpdateEpicStatus")
    /\ \E status \in StatusArgs :
          LET epic_id == call.res.value.action.epic_id
          IN Execute("update_epic_status", epic_id, NoArg, status,
                     update_epic_status(read_db, epic_id, status), FALSE)
    /\ UNCHANGED issued

NavigatorUpdateStoryStatus ==
    /\ handed("UpdateStoryStatus")
    /\ \E status \in StatusArgs :
          LET story_id == call.res.value.action.story_id
          IN Execute("update_story_status", NoArg, story_id, status,
                     update_story_status(read_db, story_id, status), FALSE)
    /\ UNCHANGED issued

NavigatorDeleteEpic ==
    /\ handed("DeleteEpic")
    /\ LET epic_id == call.res.value.action.epic_id
       IN Execute("delete_epic", epic_id, NoArg, NoArg, delete_epic(read_db, epic_id), TRUE)
    /\ UNCHANGED issued

NavigatorDeleteStory ==
    /\ handed("DeleteStory")
    /\ LET epic_id == call.res.value.action.epic_id
           story_id == call.res.value.action.story_id
       IN Execute("delete_story", epic_id, story_id, NoArg,
                  delete_story(read_db, epic_id, story_id), TRUE)
    /\ UNCHANGED issued

\* println!("Error handling processing user input: ..."); wait_for_key_press();
ReportHandleAction ==
    /\ main.pc = "report_handle_action"
    /\ main' = [main EXCEPT !.pc = "clear", !.acknowledged = TRUE]
    /\ UNCHANGED <<last_written_state, issued, pre, call, database, backend_calls>>

LoopNext ==
    \/ Clear
    \/ ClearPanics
    \/ GetCurrentPage
    \/ DrawPage
    \/ ReportDrawPage
    \/ GetUserInput
    \/ HandleInput
    \/ ReportHandleInput
    \/ NavigateToEpicDetail
    \/ NavigateToStoryDetail
    \/ NavigateToPreviousPage
    \/ Exit
    \/ NavigatorCreateEpic
    \/ NavigatorCreateStory
    \/ NavigatorUpdateEpicStatus
    \/ NavigatorUpdateStoryStatus
    \/ NavigatorDeleteEpic
    \/ NavigatorDeleteStory
    \/ ReportHandleAction

LoopSpec == LoopInit /\ [][LoopNext]_vars

----------------------------------------------------------------------------
(* JiraDatabase over a backend whose calls can fail *)

\* the document the last successful write_db left in the file; it parses
\* back to last_written_state, the DBState that was written (RoundTripSpec)
StoredFile == [json |-> "stored"]

\* self.database.read_db() on the backend in use
backend_read_db ==
    IF database.kind = "MockDB" \/ database.file = StoredFile
    THEN Ok(last_written_state)
    ELSE JSONFileDatabase_read_db(database.file)

\* self.database.write_db(&db_state): its result and the file it leaves.
\* MockDB replaces its cell; std::fs::write replaces the file, or fails
\* before it touched the file, or fails after it cut the file off
backend_write_db ==
    IF database.kind = "MockDB"
    THEN {[res |-> Ok("unit"), file |-> database.file]}
    ELSE {[res |-> Err(WriteFailure), file |-> database.file]} \cup
         (IF creatable(database.file_path)
          THEN {[res |-> Ok("unit"), file |-> StoredFile],
                [res |-> Err(WriteFailure), file |-> MalformedFile]}
          ELSE {})

\* self.database.write_db(&db_state)? without the ?: the failure is dropped
after_write_db_ignoring(out, written) == out.res

\* self.database.write_db(&db_state)?; Ok(..): a failed write is returned
\* in place of the method's value
after_write_db(out, written) ==
    IF written.res.kind = "Ok" THEN out.res ELSE written.res

\* one call of the Database trait: its name, its result, and for write_db
\* the DBState it was handed
BackendCall(name, res, db_state) == [name |-> name, res |-> res, db_state |-> db_state]

\* the DBState a method's body works on once self.read_db()? has loaded it
loaded_state == backend_read_db.value

\* a JiraDatabase method: self.read_db()? first, then its body on the loaded
\* DBState (out, its outcome), then self.database.write_db(&db_state)? where
\* the body reaches it; either ? returns the backend's failure
Method(op, epic_id, story_id, item, out) ==
    LET loaded == backend_read_db
        read == BackendCall("read_db", loaded, NoArg)
    IN /\ pre' = last_written_state
       /\ UNCHANGED main
       /\ IF loaded.kind # "Ok"
          THEN /\ backend_calls' = <<read>>
               /\ call' = Call(op, epic_id, story_id, item, NoArg, loaded)
               /\ UNCHANGED <<last_written_state, database>>
          ELSE    IF ~out.write
                  THEN /\ backend_calls' = <<read>>
                       /\ call' = Call(op, epic_id, story_id, item, NoArg, out.res)
                       /\ UNCHANGED <<last_written_state, database>>
                  ELSE \E written \in backend_write_db :
                          /\ backend_calls' =
                                <<read, BackendCall("write_db", written.res, out.db_state)>>
                          /\ call' = Call(op, epic_id, story_id, item, NoArg,
                                          after_write_db(out, written))
                          /\ last_written_state' =
                                IF written.res.kind = "Ok" THEN out.db_state
                                ELSE last_written_state
                          /\ database' = [database EXCEPT !.file = written.file]

\* ./data/db.json, or the MockDB, when the first call is made
MethodInit ==
    /\ last_written_state = MockDB_new
    /\ issued = {}
    /\ pre = MockDB_new
    /\ call = Call("new", NoArg, NoArg, NoArg, NoArg, Ok("unit"))
    /\ main = main_start
    /\ backend_calls = <<>>
    /\ \/ database = MockDB
       \/ \E file_path \in FilePaths, file \in InitialFiles :
             /\ ~creatable(file_path) => file = NoFile
             /\ database = JSONFileDatabase(file_path, file)

\* the ids nanoid!(6) can still return in such a run
nanoid_left == IF Cardinality(issued) < MaxGenerated THEN nanoid ELSE {}

\* nanoid!(6) is reached once the method has loaded the state
generated(id) == issued' = IF backend_read_db.kind = "Ok" THEN issued \cup {id} ELSE issued

MethodCreateEpic ==
    \E name \in Names, description \in Descriptions, id \in nanoid_left :
        /\ Method("create_epic", NoArg, NoArg, Epic_new(name, description),
                  create_epic(loaded_state, Epic_new(name, description), id))
        /\ generated(id)

MethodCreateStory ==
    \E name \in Names, description \in Descriptions, epic_id \in Ids, id \in nanoid_left :
        /\ Method("create_story", epic_id, NoArg, Story_new(name, description),
                  create_story(loaded_state, Story_new(name, description), epic_id, id))
        /\ issued' = IF /\ backend_read_db.kind = "Ok"
                        /\ contains_key(backend_read_db.value.epics, epic_id)
                     THEN issued \cup {id} ELSE issued

MethodDeleteEpic ==
    \E epic_id \in Ids :
        /\ Method("delete_epic", epic_id, NoArg, NoArg,
                  delete_epic(loaded_state, epic_id))
        /\ UNCHANGED issued

MethodDeleteStory ==
    \E epic_id \in Ids, story_id \in Ids :
        /\ Method("delete_story", epic_id, story_id, NoArg,
                  delete_story(loaded_state, epic_id, story_id))
        /\ UNCHANGED issued

MethodUpdateEpicStatus ==
    \E epic_id \in Ids, status \in StatusArgs :
        /\ Method("update_epic_status", epic_id, NoArg, status,
                  update_epic_status(loaded_state, epic_id, status))
        /\ UNCHANGED issued

MethodUpdateStoryStatus ==
    \E story_id \in Ids, status \in StatusArgs :
        /\ Method("update_story_status", NoArg, story_id, status,
                  update_story_status(loaded_state, story_id, status))
        /\ UNCHANGED issued

MethodGetEpic ==
    \E epic_id \in Ids :
        /\ Method("get_epic", epic_id, NoArg, NoArg,
                  get_epic(loaded_state, epic_id))
        /\ UNCHANGED issued

MethodGetEpicStory ==
    \E epic_id \in Ids, story_id \in Ids :
        /\ Method("get_epic_story", epic_id, story_id, NoArg,
                  get_epic_story(loaded_state, epic_id, story_id))
        /\ UNCHANGED issued

MethodNext ==
    \/ MethodCreateEpic
    \/ MethodCreateStory
    \/ MethodDeleteEpic
    \/ MethodDeleteStory
    \/ MethodUpdateEpicStatus
    \/ MethodUpdateStoryStatus
    \/ MethodGetEpic
    \/ MethodGetEpicStory

MethodSpec == MethodInit /\ [][MethodNext]_vars

----------------------------------------------------------------------------
(* Page helpers: get_column_string, on texts as sequences of characters *)

Characters == {"a", "b"}

Texts == UNION {[1..n -> Characters] : n \in 0..MaxText}

Widths == 0..MaxWidth

\* " ".repeat(width), ".".repeat(width)
repeat(character, width) == [i \in 1..width |-> character]

\* text.truncate_ellipse(len) of the ellipse crate: a text longer than len
\* is cut to its first len characters and "..." is put behind them
truncate_ellipse(text, len) ==
    IF Len(text) <= len THEN text ELSE SubSeq(text, 1, len) \o repeat(".", 3)

\* get_column_string cutting a long text at width instead of width - 3
get_column_string_cuts_at_width(text, width) ==
    IF text = <<>> THEN repeat(" ", width)
    ELSE IF Len(text) = width THEN text
    ELSE IF width < 4 THEN repeat(".", width)
    ELSE IF Len(text) < width THEN text \o repeat(" ", width - Len(text))
    ELSE truncate_ellipse(text, width)

\* get_column_string padding a short text on the left
get_column_string_pads_left(text, width) ==
    IF text = <<>> THEN repeat(" ", width)
    ELSE IF Len(text) = width THEN text
    ELSE IF width < 4 THEN repeat(".", width)
    ELSE IF Len(text) < width THEN repeat(" ", width - Len(text)) \o text
    ELSE truncate_ellipse(text, width - 3)

get_column_string(text, width) ==
    IF text = <<>> THEN repeat(" ", width)
    ELSE IF Len(text) = width THEN text
    ELSE IF width < 4 THEN repeat(".", width)
    ELSE IF Len(text) < width THEN text \o repeat(" ", width - Len(text))
    ELSE truncate_ellipse(text, width - 3)

\* a page formats one column
GetColumnString ==
    \E text \in Texts, width \in Widths :
        /\ call' = Call("get_column_string", NoArg, NoArg, text, width,
                        get_column_string(text, width))
        /\ UNCHANGED <<last_written_state, issued, pre, database, main, backend_calls>>

ColumnSpec == Init /\ [][GetColumnString]_vars

----------------------------------------------------------------------------
(* Properties *)

epics == last_written_state.epics

stories == last_written_state.stories

succeeded(op) == call.op = op /\ call.res.kind = "Ok"

NotFound(res) == res.kind = "Err" /\ res.value \in {EpicNotFound, StoryNotFound}

\* the (epic, position) places where story id s is referenced
references(s) ==
    {p \in (DOMAIN epics) \X (1..MaxIds) :
        p[2] <= Len(epics[p[1]].stories) /\ epics[p[1]].stories[p[2]] = s}

\* C1: every id in the stories sequence of an existing epic is a key of the
\* global stories mapping, after any sequence of Repository calls.
C1_ReferentialIntegrity ==
    \A e \in DOMAIN epics :
        \A i \in 1..Len(epics[e].stories) : contains_key(stories, epics[e].stories[i])

\* C2: no Repository call faults: every call returns a value or a failure,
\* never the panic of unwrapping a story that is listed in the epic but
\* missing from the global stories mapping.
C2_NoCallPanics == call.res.kind \in {"Ok", "Err"}

\* C3: every key of the global stories mapping is referenced by exactly one
\* existing epic, exactly once.
C3_ExclusiveOwnership ==
    \A s \in DOMAIN stories : Cardinality(references(s)) = 1

\* C3 witness: after a create_story, two epics exist and the story is owned by one
C3_Witness ==
    /\ succeeded("create_story")
    /\ Cardinality(DOMAIN epics) = 2
    /\ \E s \in DOMAIN stories : Cardinality(references(s)) = 1

\* C4: after a successful create_epic the returned id resolves through
\* get_epic to an epic with the given name and description, status Open and
\* no stories, whatever the passed Epic value carried, and last_item_id is
\* the returned id.
C4_CreateEpicThenGetEpic ==
    succeeded("create_epic") =>
        LET id == call.res.value
        IN /\ get_epic(read_db, id).res =
                Ok([name |-> call.item.name, description |-> call.item.description,
                    status |-> "Open", stories |-> <<>>])
           /\ read_db.last_item_id = id

\* C4 witness: an epic created in a non-empty state from an Epic value that
\* carried another status and a story list
C4_Witness ==
    /\ succeeded("create_epic")
    /\ call.item.status = "Closed"
    /\ call.item.stories # <<>>
    /\ DOMAIN pre.epics # {}
    /\ get_epic(read_db, call.res.value).res.value.status = "Open"

\* C5: create_story on an epic id that is not a key of epics fails with
\* NotFound and leaves epics, stories and last_item_id as they were.
C5_CreateStoryUnknownEpic ==
    (call.op = "create_story" /\ ~contains_key(pre.epics, call.epic_id)) =>
        /\ NotFound(call.res)
        /\ last_written_state = pre

\* C5 witness: the failed create_story happened in a state holding an epic and a story
C5_Witness ==
    /\ call.op = "create_story"
    /\ ~contains_key(pre.epics, call.epic_id)
    /\ DOMAIN pre.epics # {}
    /\ DOMAIN pre.stories # {}
    /\ call.res.kind = "Err"

\* C6: a successful create_story returns a new id, stores the story with the
\* given name and description and status Open under it, appends the id as
\* the last element of the target epic's stories and sets last_item_id to it.
C6_CreateStoryEffect ==
    succeeded("create_story") =>
        LET id == call.res.value
            e == call.epic_id
        IN /\ ~contains_key(pre.stories, id)
           /\ contains_key(stories, id)
           /\ stories[id] = [name |-> call.item.name,
                             description |-> call.item.description, status |-> "Open"]
           /\ epics[e].stories = Append(pre.epics[e].stories, id)
           /\ last_written_state.last_item_id = id

\* C6 witness: the story was appended behind an earlier one
C6_Witness ==
    /\ succeeded("create_story")
    /\ Len(pre.epics[call.epic_id].stories) >= 1
    /\ Len(epics[call.epic_id].stories) = Len(pre.epics[call.epic_id].stories) + 1
    /\ call.item.status = "Closed"

\* C7: a successful delete_epic removes the epic and every story its
\* sequence referenced, sets last_item_id to the epic id, makes get_epic
\* fail with NotFound, and leaves the other epics and the stories they
\* reference unchanged.
C7_DeleteEpicEffect ==
    succeeded("delete_epic") =>
        LET e == call.epic_id
        IN /\ ~contains_key(epics, e)
           /\ \A i \in 1..Len(pre.epics[e].stories) :
                ~contains_key(stories, pre.epics[e].stories[i])
           /\ last_written_state.last_item_id = e
           /\ NotFound(get_epic(read_db, e).res)
           /\ DOMAIN epics = (DOMAIN pre.epics) \ {e}
           /\ \A o \in DOMAIN epics :
                /\ epics[o] = pre.epics[o]
                /\ \A i \in 1..Len(epics[o].stories) :
                     LET s == epics[o].stories[i]
                     IN /\ contains_key(stories, s) <=> contains_key(pre.stories, s)
                        /\ contains_key(stories, s) => stories[s] = pre.stories[s]

\* C7 witness: the deleted epic referenced a live story and another epic stays
C7_Witness ==
    /\ succeeded("delete_epic")
    /\ \E i \in 1..Len(pre.epics[call.epic_id].stories) :
         contains_key(pre.stories, pre.epics[call.epic_id].stories[i])
    /\ DOMAIN epics # {}

\* C8: a successful delete_story leaves the epic's stories without the id
\* (the other ids in their order), removes the id from the global stories
\* mapping and sets last_item_id to it; the epic's other fields, every other
\* story and every other epic are unchanged.  In the scenario create_epic,
\* create_story, delete_story the epic's stories end empty.
C8_DeleteStoryEffect ==
    succeeded("delete_story") =>
        LET e == call.epic_id
            s == call.story_id
        IN /\ contains_key(epics, e)
           /\ ~contains(epics[e].stories, s)
           /\ epics[e].stories = SelectSeq(pre.epics[e].stories, LAMBDA x : x # s)
           /\ epics[e] = [pre.epics[e] EXCEPT !.stories = epics[e].stories]
           /\ DOMAIN stories = (DOMAIN pre.stories) \ {s}
           /\ \A o \in DOMAIN stories : stories[o] = pre.stories[o]
           /\ DOMAIN epics = DOMAIN pre.epics
           /\ \A o \in (DOMAIN epics) \ {e} : epics[o] = pre.epics[o]
           /\ last_written_state.last_item_id = s
           /\ (pre.epics[e].stories = <<s>> => get_epic(read_db, e).res.value.stories = <<>>)

\* C8 witness: the scenario's end state: the epic's only story was deleted
C8_Witness ==
    /\ succeeded("delete_story")
    /\ pre.epics[call.epic_id].stories = <<call.story_id>>
    /\ get_epic(read_db, call.epic_id).res.value.stories = <<>>
    /\ last_written_state.last_item_id = call.story_id

\* C9: get_epic_story fails with NotFound when the epic is absent and when
\* the story id is not in that epic's stories, also when the id is a key of
\* the global stories mapping; it never changes the persisted state.
C9_GetEpicStoryNotFound ==
    call.op = "get_epic_story" =>
        /\ last_written_state = pre
        /\ ~contains_key(pre.epics, call.epic_id) => NotFound(call.res)
        /\ (/\ contains_key(pre.epics, call.epic_id)
            /\ ~contains(pre.epics[call.epic_id].stories, call.story_id))
           => NotFound(call.res)

\* C9 witness: the story exists globally, under another epic
C9_Witness ==
    /\ call.op = "get_epic_story"
    /\ contains_key(pre.epics, call.epic_id)
    /\ contains_key(pre.stories, call.story_id)
    /\ ~contains(pre.epics[call.epic_id].stories, call.story_id)
    /\ call.res.kind = "Err"

\* C10: a read issued after a successful mutating call observes its effect:
\* HomePage.handle_input(id) navigates to the epic right after create_epic
\* returned id and gives no action right after delete_epic(id); get_epic and
\* get_epic_story see a created story, get_epic fails after delete_epic.
C10_SequentialVisibility ==
    /\ succeeded("create_epic") =>
         HomePage_handle_input(read_db, call.res.value) =
            Ok(Some([type |-> "NavigateToEpicDetail", epic_id |-> call.res.value]))
    /\ succeeded("delete_epic") =>
         /\ HomePage_handle_input(read_db, call.epic_id) = Ok(None)
         /\ get_epic(read_db, call.epic_id).res.kind = "Err"
    /\ succeeded("create_story") =>
         /\ get_epic_story(read_db, call.epic_id, call.res.value).res.kind = "Ok"
         /\ contains(get_epic(read_db, call.epic_id).res.value.stories, call.res.value)

\* C10 witness: an epic that handle_input navigated to before is deleted and
\* handle_input no longer answers for it
C10_Witness ==
    /\ succeeded("delete_epic")
    /\ HomePage_handle_input(pre, call.epic_id).value.kind = "Some"
    /\ HomePage_handle_input(read_db, call.epic_id) = Ok(None)

PageOps ==
    {"HomePage.draw_page", "HomePage.handle_input", "EpicDetail.draw_page",
     "EpicDetail.handle_input", "StoryDetail.draw_page", "StoryDetail.handle_input"}

action(type) == Ok(Some([type |-> type]))

\* C11: draw_page and handle_input of HomePage, EpicDetail and StoryDetail
\* never persist: epics, stories and last_item_id are the same after the call,
\* whether it returned an action, no action or an error.
C11_PagesReadOnly ==
    call.op \in PageOps => last_written_state = pre

\* C11 witness: a page call that failed in a state holding an epic and a story
C11_Witness ==
    /\ call.op = "EpicDetail.handle_input"
    /\ call.res.kind = "Err"
    /\ DOMAIN pre.epics # {}
    /\ DOMAIN pre.stories # {}
    /\ last_written_state = pre

\* C12: HomePage.handle_input returns Exit for "q", CreateEpic for "c",
\* NavigateToEpicDetail(input) when the input is a key of epics at that
\* moment, and otherwise no action and no error.
C12_HomePageActions ==
    call.op = "HomePage.handle_input" =>
        /\ call.input = "q" => call.res = action("Exit")
        /\ call.input = "c" => call.res = action("CreateEpic")
        /\ contains_key(pre.epics, call.input) =>
             call.res = Ok(Some([type |-> "NavigateToEpicDetail", epic_id |-> call.input]))
        /\ (call.input \notin {"q", "c"} /\ ~contains_key(pre.epics, call.input)) =>
             call.res = Ok(None)

\* C12 witness: the input is the id of a live story and no action comes back
C12_Witness ==
    /\ call.op = "HomePage.handle_input"
    /\ contains_key(pre.stories, call.input)
    /\ DOMAIN pre.epics # {}
    /\ call.res = Ok(None)

\* C13: EpicDetail.handle_input on a page whose epic exists returns
\* NavigateToPreviousPage for "p", UpdateEpicStatus for "u", DeleteEpic for
\* "d", CreateStory for "c", NavigateToStoryDetail exactly when the input is
\* in this epic's stories, and no action for anything else.
C13_EpicDetailActions ==
    (call.op = "EpicDetail.handle_input" /\ contains_key(pre.epics, call.epic_id)) =>
        LET e == call.epic_id
            listed == contains(pre.epics[e].stories, call.input)
            nav == Ok(Some([type |-> "NavigateToStoryDetail", epic_id |-> e,
                            story_id |-> call.input]))
        IN /\ call.input = "p" => call.res = action("NavigateToPreviousPage")
           /\ call.input = "u" =>
                call.res = Ok(Some([type |-> "UpdateEpicStatus", epic_id |-> e]))
           /\ call.input = "d" =>
                call.res = Ok(Some([type |-> "DeleteEpic", epic_id |-> e]))
           /\ call.input = "c" =>
                call.res = Ok(Some([type |-> "CreateStory", epic_id |-> e]))
           /\ (call.res = nav) <=> listed
           /\ (call.input \notin {"p", "u", "d", "c"} /\ ~listed) => call.res = Ok(None)

\* C13 witness: the input is a live story of another epic and no action comes back
C13_Witness ==
    /\ call.op = "EpicDetail.handle_input"
    /\ contains_key(pre.epics, call.epic_id)
    /\ contains_key(pre.stories, call.input)
    /\ ~contains(pre.epics[call.epic_id].stories, call.input)
    /\ call.res = Ok(None)

\* C14: StoryDetail.handle_input returns NavigateToPreviousPage for "p",
\* UpdateStoryStatus(story_id) for "u", DeleteStory(epic_id, story_id) for
\* "d" and no action otherwise, in every state and never an error.
C14_StoryDetailActions ==
    call.op = "StoryDetail.handle_input" =>
        /\ call.res.kind = "Ok"
        /\ call.input = "p" => call.res = action("NavigateToPreviousPage")
        /\ call.input = "u" =>
             call.res = Ok(Some([type |-> "UpdateStoryStatus", story_id |-> call.story_id]))
        /\ call.input = "d" =>
             call.res = Ok(Some([type |-> "DeleteStory", epic_id |-> call.epic_id,
                                 story_id |-> call.story_id]))
        /\ call.input \notin {"p", "u", "d"} => call.res = Ok(None)

\* C14 witness: "d" on a page whose story was deleted while its epic lives on
C14_Witness ==
    /\ call.op = "StoryDetail.handle_input"
    /\ call.input = "d"
    /\ contains_key(pre.epics, call.epic_id)
    /\ contains(pre.epics[call.epic_id].stories, call.story_id)
    /\ ~contains_key(pre.stories, call.story_id)
    /\ call.res.value.kind = "Some"

\* C15: EpicDetail.draw_page fails, with its not-found error, exactly when
\* the bound epic id is not a key of epics; it succeeds otherwise, also when
\* the epic lists an id that is missing from the stories mapping.
C15_EpicDetailDraw ==
    call.op = "EpicDetail.draw_page" =>
        /\ (call.res.kind = "Err") <=> ~contains_key(pre.epics, call.epic_id)
        /\ call.res.kind = "Err" => call.res.value = EpicPageNotFound
        /\ call.res.kind \in {"Ok", "Err"}

\* C15 witness: the page of an epic with a dangling story id is drawn
C15_Witness ==
    /\ call.op = "EpicDetail.draw_page"
    /\ contains_key(pre.epics, call.epic_id)
    /\ \E i \in 1..Len(pre.epics[call.epic_id].stories) :
         ~contains_key(pre.stories, pre.epics[call.epic_id].stories[i])
    /\ call.res.kind = "Ok"

\* C16: StoryDetail.draw_page fails, with its not-found error, exactly when
\* the bound story id is not a key of the global stories mapping, whatever
\* the bound epic id is.
C16_StoryDetailDraw ==
    call.op = "StoryDetail.draw_page" =>
        /\ (call.res.kind = "Err") <=> ~contains_key(pre.stories, call.story_id)
        /\ call.res.kind = "Err" => call.res.value = StoryPageNotFound
        /\ call.res.kind \in {"Ok", "Err"}

\* C16 witness: the story is drawn on a page bound to an epic that does not list it
C16_Witness ==
    /\ call.op = "StoryDetail.draw_page"
    /\ contains_key(pre.epics, call.epic_id)
    /\ ~contains(pre.epics[call.epic_id].stories, call.story_id)
    /\ call.res.kind = "Ok"

\* C17: update_epic_status on an existing epic sets its status to the given
\* value and leaves its name, description and stories, every other epic, the
\* stories mapping and last_item_id as they were; on an absent epic id it
\* fails with NotFound.
C17_UpdateEpicStatusFrame ==
    call.op = "update_epic_status" =>
        LET e == call.epic_id
        IN IF contains_key(pre.epics, e)
           THEN /\ call.res.kind = "Ok"
                /\ DOMAIN epics = DOMAIN pre.epics
                /\ epics[e].status = call.item
                /\ epics[e].name = pre.epics[e].name
                /\ epics[e].description = pre.epics[e].description
                /\ epics[e].stories = pre.epics[e].stories
                /\ \A o \in (DOMAIN epics) \ {e} : epics[o] = pre.epics[o]
                /\ stories = pre.stories
                /\ last_written_state.last_item_id = pre.last_item_id
           ELSE NotFound(call.res)

\* C17 witness: an epic that lists a story goes from InProgress to Closed
\* while another item was touched last
C17_Witness ==
    /\ succeeded("update_epic_status")
    /\ pre.epics[call.epic_id].status = "InProgress"
    /\ epics[call.epic_id].status = "Closed"
    /\ pre.epics[call.epic_id].stories # <<>>
    /\ pre.last_item_id # call.epic_id

\* C18: update_story_status on a key of the stories mapping sets that
\* story's status to the given value and leaves its name and description,
\* every other story, the epics mapping and last_item_id as they were; on an
\* absent story id, also one that is an epic id, it fails with NotFound.
C18_UpdateStoryStatusFrame ==
    call.op = "update_story_status" =>
        LET s == call.story_id
        IN IF contains_key(pre.stories, s)
           THEN /\ call.res.kind = "Ok"
                /\ DOMAIN stories = DOMAIN pre.stories
                /\ stories[s].status = call.item
                /\ stories[s].name = pre.stories[s].name
                /\ stories[s].description = pre.stories[s].description
                /\ \A o \in (DOMAIN stories) \ {s} : stories[o] = pre.stories[o]
                /\ epics = pre.epics
                /\ last_written_state.last_item_id = pre.last_item_id
           ELSE NotFound(call.res)

\* C18 witness: one of two stories is set to InProgress after the other one
\* was touched last
C18_Witness ==
    /\ succeeded("update_story_status")
    /\ Cardinality(DOMAIN pre.stories) = 2
    /\ call.item = "InProgress"
    /\ stories[call.story_id].status = "InProgress"
    /\ pre.last_item_id # call.story_id

\* C18 second case: the id of an existing epic is refused as a story id
C18_EpicIdRefused ==
    /\ call.op = "update_story_status"
    /\ contains_key(pre.epics, call.story_id)
    /\ call.res.kind = "Err"

\* C19: once a write_db has succeeded, read_db on the same backend returns a
\* DBState equal to the one written, in epics, stories and last_item_id, for
\* the empty state and for states whose epics reference stories; a read_db
\* that was called returned it, and a change the caller made to the value it
\* loaded, without writing it, leaves the next read_db's result the same.
C19_RoundTrip ==
    pre # Nothing =>
        /\ Database_read_db = Ok(pre)
        /\ call.op = "read_db" => call.res = Ok(pre)

\* the in-memory backend holds a state with an epic that references a story,
\* the caller loaded it and changed its copy, and read_db still returns it
C19_Witness ==
    /\ database.kind = "MockDB"
    /\ call.op = "change_loaded"
    /\ call.item # pre
    /\ \E epic_id \in DOMAIN pre.epics :
          /\ Len(pre.epics[epic_id].stories) > 0
          /\ pre.epics[epic_id].stories[1] \in DOMAIN pre.stories
    /\ MockDB_read_db(last_written_state) = Ok(pre)

\* C20: the driving loop never stops on an error.  In an iteration with a
\* current page handle_input runs after that page's draw_page and the read of
\* the input, and the navigator's handle_action runs only on an action that
\* handle_input returned; once an error of draw_page, handle_input or
\* handle_action has been reported and acknowledged, the loop has not stopped
\* before the next draw_page.
C20_LoopNeverStops ==
    /\ main.pc = "handle_input" =>
          /\ call.op = get_current_page.page \o ".draw_page"
          /\ main.input \in UserInputs
    /\ main.pc = "handle_action" =>
          /\ call.op = get_current_page.page \o ".handle_input"
          /\ call.res.kind = "Ok"
          /\ call.res.value.kind = "Some"
    /\ main.acknowledged => main.pc # "panicked"

RepositoryOps ==
    {"create_epic", "create_story", "delete_epic", "delete_story", "update_epic_status",
     "update_story_status", "get_epic", "get_epic_story"}

\* C22: every failing Repository call leaves the persisted state unchanged:
\* delete_epic on an absent epic id, delete_story on a globally absent story
\* id or on an absent epic id with an existing story id, update_epic_status
\* and update_story_status on absent ids, get_epic on an absent id and
\* get_epic_story on an absent epic or an unlisted story return NotFound, and
\* epics, stories and last_item_id equal their values before the call.
C22_FailedCallsPersistNothing ==
    call.op \in RepositoryOps =>
        /\ call.res.kind # "Ok" => last_written_state = pre
        /\ call.res.kind = "Err" => NotFound(call.res)
        /\ (call.op \in {"delete_epic", "update_epic_status", "get_epic", "get_epic_story"}
            /\ ~contains_key(pre.epics, call.epic_id)) => NotFound(call.res)
        /\ (call.op \in {"delete_story", "update_story_status"}
            /\ ~contains_key(pre.stories, call.story_id)) => NotFound(call.res)
        /\ (call.op = "delete_story" /\ ~contains_key(pre.epics, call.epic_id))
           => NotFound(call.res)
        /\ (/\ call.op = "get_epic_story"
            /\ contains_key(pre.epics, call.epic_id)
            /\ ~contains(pre.epics[call.epic_id].stories, call.story_id))
           => NotFound(call.res)

\* C22 witness: delete_story of a live story under an epic id that is absent
\* failed, in a state that holds an epic
C22_Witness ==
    /\ call.op = "delete_story"
    /\ contains_key(pre.stories, call.story_id)
    /\ ~contains_key(pre.epics, call.epic_id)
    /\ DOMAIN pre.epics # {}
    /\ call.res.kind = "Err"
    /\ last_written_state = pre

\* the id a successful create or delete call returned or was passed
touched ==
    CASE call.op \in {"create_epic", "create_story"} -> call.res.value
      [] call.op = "delete_epic" -> call.epic_id
      [] call.op = "delete_story" -> call.story_id

\* C23: last_item_id changes only through a successful create_epic,
\* create_story, delete_epic or delete_story, and is then the id that call
\* returned or was passed; update_epic_status, update_story_status, get_epic,
\* get_epic_story and every failed call leave it as it was, so after any
\* sequence of calls it is the id of the most recent such successful call, or
\* its initial value.
C23_LastItemId ==
    IF /\ call.op \in {"create_epic", "create_story", "delete_epic", "delete_story"}
       /\ call.res.kind = "Ok"
    THEN last_written_state.last_item_id = touched
    ELSE last_written_state.last_item_id = pre.last_item_id

\* C23 witness: a story's status was updated after an epic was deleted, and
\* last_item_id still names the deleted epic
C23_Witness ==
    /\ succeeded("update_story_status")
    /\ last_written_state.last_item_id \in Ids
    /\ ~contains_key(epics, last_written_state.last_item_id)
    /\ ~contains_key(stories, last_written_state.last_item_id)
    /\ last_written_state.last_item_id # call.story_id

\* the id a successful mutating call touched, the status updates included
touched_by_any ==
    CASE call.op \in {"create_epic", "create_story"} -> call.res.value
      [] call.op \in {"delete_epic", "update_epic_status"} -> call.epic_id
      [] call.op \in {"delete_story", "update_story_status"} -> call.story_id

\* C24 as stated: after each successful mutating call, update_epic_status and
\* update_story_status included, last_item_id equals the id that call touched.
C24_EveryCallOverwrites ==
    (/\ call.op \in {"create_epic", "create_story", "delete_epic", "delete_story",
                     "update_epic_status", "update_story_status"}
     /\ call.res.kind = "Ok") =>
        last_written_state.last_item_id = touched_by_any

\* C24 amended: last_item_id is overwritten by every successful create and
\* delete call, whatever it held, and then equals the id that call touched;
\* a successful update_epic_status or update_story_status does not overwrite
\* it, it stays the id of the create or delete before.
C24_CreatesAndDeletesOverwrite ==
    /\ (succeeded("create_epic") \/ succeeded("create_story")) =>
          last_written_state.last_item_id = call.res.value
    /\ succeeded("delete_epic") => last_written_state.last_item_id = call.epic_id
    /\ succeeded("delete_story") => last_written_state.last_item_id = call.story_id
    /\ (succeeded("update_epic_status") \/ succeeded("update_story_status")) =>
          /\ last_written_state.last_item_id = pre.last_item_id
          /\ pre.last_item_id \in issued

\* C24 witness: an epic's status was updated while last_item_id named a story
C24_Witness ==
    /\ succeeded("update_epic_status")
    /\ contains_key(stories, last_written_state.last_item_id)
    /\ epics[call.epic_id].status = "Closed"
    /\ last_written_state.last_item_id # call.epic_id

MutatingOps ==
    {"create_epic", "create_story", "delete_epic", "delete_story", "update_epic_status",
     "update_story_status"}

\* the positions in the last call's Database calls that are calls of name
backend_calls_of(name) ==
    {i \in DOMAIN backend_calls : backend_calls[i].name = name}

\* C25: every Repository call makes exactly one read_db, as its first backend
\* call; every successful mutating call makes exactly one write_db, of the
\* full state, as its last backend call; get_epic, get_epic_story and every
\* call that fails a NotFound check make no write_db.
C25_LoadMutateStore ==
    call.op \in RepositoryOps =>
        /\ backend_calls_of("read_db") = {1}
        /\ (call.op \in MutatingOps /\ call.res.kind = "Ok") =>
              /\ backend_calls_of("write_db") = {Len(backend_calls)}
              /\ DOMAIN backend_calls[Len(backend_calls)].db_state =
                    {"epics", "stories", "last_item_id"}
              /\ backend_read_db = Ok(backend_calls[Len(backend_calls)].db_state)
        /\ (call.op \in {"get_epic", "get_epic_story"} \/ NotFound(call.res)) =>
              backend_calls_of("write_db") = {}

\* C25 witness: a create_story on the file backend loaded a state with an
\* epic and wrote the state with the new story
C25_Witness ==
    /\ succeeded("create_story")
    /\ database.kind = "JSONFileDatabase"
    /\ Len(backend_calls) = 2
    /\ backend_calls[1].res = Ok(pre)
    /\ backend_calls[2].db_state = last_written_state
    /\ DOMAIN last_written_state.stories # {}

\* C26: when the backend's read_db fails, the Repository call returns that
\* failure and makes no write_db; when the backend's write_db fails, the
\* mutating call returns that failure instead of an id or Ok, and the next
\* read_db returns what the backend held before the call or the failure of
\* reading what the failed write left, never a state with the mutation
\* applied in part.
C26_StorageFailuresPropagate ==
    call.op \in RepositoryOps =>
        /\ backend_calls[1].res.kind # "Ok" =>
              /\ call.res = backend_calls[1].res
              /\ call.res.kind = "Err"
              /\ Len(backend_calls) = 1
              /\ backend_read_db = backend_calls[1].res
        /\ (Len(backend_calls) = 2 /\ backend_calls[2].res.kind # "Ok") =>
              /\ call.res = backend_calls[2].res
              /\ call.res.kind = "Err"
              /\ backend_read_db \in {backend_calls[1].res, Err(FormatFailure)}
              /\ backend_read_db.kind = "Ok" => backend_read_db.value = pre

\* C26 witness: the write_db of a create_story failed and the file still
\* holds the state with the epic and without the story
C26_Witness ==
    /\ call.op = "create_story"
    /\ Len(backend_calls) = 2
    /\ call.res = Err(WriteFailure)
    /\ backend_read_db = Ok(pre)
    /\ DOMAIN pre.epics # {}
    /\ backend_calls[2].db_state # pre

C28_EpicDetailPreviousPage ==
    (call.op = "EpicDetail.handle_input" /\ call.input = "p") =>
        call.res = action("NavigateToPreviousPage")

\* C29: get_column_string(text, width) returns exactly width characters for
\* every text and every width >= 0: spaces for the empty text, the text
\* itself when its length equals width, and for a longer text with
\* width >= 4 its first width - 3 characters followed by "...".
C29_ColumnWidth ==
    call.op = "get_column_string" =>
        LET text == call.item
            width == call.input
        IN /\ Len(call.res) = width
           /\ text = <<>> => call.res = repeat(" ", width)
           /\ Len(text) = width => call.res = text
           /\ (Len(text) > width /\ width >= 4) =>
                 call.res = SubSeq(text, 1, width - 3) \o <<".", ".", ".">>

\* C29 witness: a text of five characters in a column of four
C29_Witness ==
    /\ call.op = "get_column_string"
    /\ Len(call.item) = 5
    /\ call.input = 4
    /\ call.res = <<call.item[1], ".", ".", ".">>

\* C30 as stated: for every non-empty text and every width with
\* len(text) < width the result is the text followed by width - len(text)
\* spaces.
C30_PadsShorterText ==
    (/\ call.op = "get_column_string"
     /\ call.item # <<>>
     /\ Len(call.item) < call.input) =>
        call.res = call.item \o repeat(" ", call.input - Len(call.item))

\* C30 amended: a non-empty text shorter than the width is followed by
\* width - len(text) spaces when width >= 4; in a column of width 2 or 3 the
\* result is width dots and the text is not shown.
C30_PadsShorterTextFromFour ==
    (/\ call.op = "get_column_string"
     /\ call.item # <<>>
     /\ Len(call.item) < call.input) =>
        IF call.input >= 4
        THEN call.res = call.item \o repeat(" ", call.input - Len(call.item))
        ELSE call.res = repeat(".", call.input)

\* C30 witness: a text of two characters in a column of five
C30_Witness ==
    /\ call.op = "get_column_string"
    /\ Len(call.item) = 2
    /\ call.input = 5
    /\ call.res = <<call.item[1], call.item[2], " ", " ", " ">>

====
